---- MODULE Spec2Model ----
(***************************************************************************)
(* lib/vrl/stdlib/src/to_unix_timestamp.rs: the `to_unix_timestamp`        *)
(* builtin.  The descriptor compiles a call site (an argument list) into   *)
(* a ToUnixTimestampFn node {value, unit}; the node is queried for its     *)
(* static type (type_def) and evaluated once per record (resolve).         *)
(*                                                                         *)
(* Integers of the program are i64.  TLC's own integers are 32 bits wide,  *)
(* so every i64 of the program is carried as an exact integer in           *)
(* sign-magnitude form, [neg, mag], mag a little-endian sequence of        *)
(* base-1000 limbs without leading zero limbs; the i64 width is applied    *)
(* where the program's arithmetic applies it (i64_mul, i64_add).           *)
(***************************************************************************)
EXTENDS Integers, Sequences, FiniteSets, TLC

(***************************************************************************)
(* Exact integers.                                                         *)
(***************************************************************************)
RECURSIVE Trim(_)
Trim(m) ==
    IF m = <<>> THEN m
    ELSE IF m[Len(m)] = 0 THEN Trim(SubSeq(m, 1, Len(m) - 1))
    ELSE m

RECURSIVE MagCmpFrom(_, _, _)
MagCmpFrom(a, b, i) ==
    IF i = 0 THEN 0
    ELSE IF a[i] < b[i] THEN -1
    ELSE IF a[i] > b[i] THEN 1
    ELSE MagCmpFrom(a, b, i - 1)

MagCmp(a, b) ==
    IF Len(a) < Len(b) THEN -1
    ELSE IF Len(a) > Len(b) THEN 1
    ELSE MagCmpFrom(a, b, Len(a))

RECURSIVE MagAddC(_, _, _)
MagAddC(a, b, c) ==
    IF a = <<>> /\ b = <<>> THEN (IF c = 0 THEN <<>> ELSE <<c>>)
    ELSE LET x == IF a = <<>> THEN 0 ELSE Head(a)
             y == IF b = <<>> THEN 0 ELSE Head(b)
             s == x + y + c
         IN <<s % 1000>> \o MagAddC(IF a = <<>> THEN a ELSE Tail(a),
                                    IF b = <<>> THEN b ELSE Tail(b),
                                    s \div 1000)

\* a - b for magnitudes with a >= b.
RECURSIVE MagSubB(_, _, _)
MagSubB(a, b, c) ==
    IF a = <<>> THEN <<>>
    ELSE LET y == IF b = <<>> THEN 0 ELSE Head(b)
             d == Head(a) - y - c
         IN <<d % 1000>> \o MagSubB(Tail(a),
                                    IF b = <<>> THEN b ELSE Tail(b),
                                    IF d < 0 THEN 1 ELSE 0)

\* a * k + c for a limb k.
RECURSIVE MagMulC(_, _, _)
MagMulC(a, k, c) ==
    IF a = <<>>
    THEN (IF c = 0 THEN <<>>
          ELSE <<c % 1000>> \o MagMulC(a, k, c \div 1000))
    ELSE LET p == Head(a) * k + c
         IN <<p % 1000>> \o MagMulC(Tail(a), k, p \div 1000)

RECURSIVE MagMulFrom(_, _, _)
MagMulFrom(a, b, i) ==
    IF i > Len(b) THEN <<>>
    ELSE LET rest == MagMulFrom(a, b, i + 1)
         IN MagAddC(MagMulC(a, b[i], 0),
                    IF rest = <<>> THEN <<>> ELSE <<0>> \o rest, 0)

Big(n, m) == [neg |-> n /\ Trim(m) # <<>>, mag |-> Trim(m)]

RECURSIVE NatMag(_)
NatMag(n) == IF n = 0 THEN <<>> ELSE <<n % 1000>> \o NatMag(n \div 1000)

BigFromInt(n) == IF n < 0 THEN Big(TRUE, NatMag(-n)) ELSE Big(FALSE, NatMag(n))

BigNeg(a) == Big(~a.neg, a.mag)

BigAbs(a) == Big(FALSE, a.mag)

BigAdd(a, b) ==
    IF a.neg = b.neg THEN Big(a.neg, MagAddC(a.mag, b.mag, 0))
    ELSE IF MagCmp(a.mag, b.mag) >= 0 THEN Big(a.neg, MagSubB(a.mag, b.mag, 0))
    ELSE Big(b.neg, MagSubB(b.mag, a.mag, 0))

BigSub(a, b) == BigAdd(a, BigNeg(b))

BigMul(a, b) == Big(a.neg # b.neg, MagMulFrom(a.mag, b.mag, 1))

BigCmp(a, b) ==
    IF a.neg /\ ~b.neg THEN -1
    ELSE IF ~a.neg /\ b.neg THEN 1
    ELSE IF a.neg THEN MagCmp(b.mag, a.mag)
    ELSE MagCmp(a.mag, b.mag)

BigLt(a, b) == BigCmp(a, b) < 0

BigLe(a, b) == BigCmp(a, b) <= 0

RECURSIVE TwoPow(_)
TwoPow(n) ==
    IF n = 0 THEN BigFromInt(1)
    ELSE IF n % 2 = 0 THEN LET h == TwoPow(n \div 2) IN BigMul(h, h)
    ELSE BigMul(BigFromInt(2), TwoPow(n - 1))

Zero == BigFromInt(0)

(***************************************************************************)
(* i64: the integer type of every count the node returns.                  *)
(***************************************************************************)
I64Bits == 64

I64Modulus == TwoPow(I64Bits)

I64Max == BigSub(TwoPow(I64Bits - 1), BigFromInt(1))

I64Min == BigNeg(TwoPow(I64Bits - 1))

InI64(x) == BigLe(I64Min, x) /\ BigLe(x, I64Max)

\* The value an i64 operation leaves when its exact result x does not fit
\* and overflow checks are off: x reduced modulo 2^64 into [I64Min, I64Max].
RECURSIVE WrapI64(_)
WrapI64(x) ==
    IF BigLt(I64Max, x) THEN WrapI64(BigSub(x, I64Modulus))
    ELSE IF BigLt(x, I64Min) THEN WrapI64(BigAdd(x, I64Modulus))
    ELSE x

\* One i64 operation with exact result x.  With overflow checks (the
\* default of a debug build) an out-of-range result panics; without them
\* (the default of a release build) it wraps.
I64Op(x, overflow_checks) ==
    IF InI64(x) THEN [tag |-> "Int", val |-> x]
    ELSE IF overflow_checks
    THEN [tag |-> "Panic", message |-> "attempt to multiply or add with overflow"]
    ELSE [tag |-> "Int", val |-> WrapI64(x)]

i64_mul(a, b, overflow_checks) ==
    IF a.tag = "Panic" THEN a
    ELSE I64Op(BigMul(a.val, b), overflow_checks)

i64_add(a, b, overflow_checks) ==
    IF a.tag = "Panic" THEN a
    ELSE I64Op(BigAdd(a.val, b), overflow_checks)

(***************************************************************************)
(* Timestamps.  The operand value is a chrono DateTime<Utc>: a calendar    *)
(* date, the second of the day and the nanosecond of the second.  chrono's *)
(* leap-second encoding (a nanosecond field of 10^9 or more) is outside    *)
(* the model.                                                              *)
(***************************************************************************)
Ts(y, m, d, secs, frac) == [ymd |-> <<y, m, d>>, secs |-> secs, frac |-> frac]

IsLeapYear(y) == (y % 4 = 0 /\ y % 100 # 0) \/ y % 400 = 0

DaysBeforeMonth == <<0, 31, 59, 90, 120, 151, 181, 212, 243, 273, 304, 334>>

\* Datelike::num_days_from_ce: days since 0000-12-31 (0001-01-01 is day 1).
num_days_from_ce(ymd) ==
    LET y == ymd[1]
        m == ymd[2]
        d == ymd[3]
        p == y - 1
    IN 365 * p + (p \div 4) - (p \div 100) + (p \div 400)
       + DaysBeforeMonth[m] + (IF m > 2 /\ IsLeapYear(y) THEN 1 ELSE 0) + d

UNIX_EPOCH_DAY == 719163

\* timestamp as it would be if the division into seconds rounded toward
\* zero: one more for an instant before the epoch with a sub-second part.
timestamp_truncating(ts) ==
    LET floor == BigAdd(BigMul(BigFromInt(num_days_from_ce(ts.ymd) - UNIX_EPOCH_DAY),
                               BigFromInt(86400)),
                        BigFromInt(ts.secs))
    IN [tag |-> "Int",
        val |-> IF floor.neg /\ ts.frac > 0 THEN BigAdd(floor, BigFromInt(1)) ELSE floor]

\* DateTime::timestamp: (gregorian_day - UNIX_EPOCH_DAY) * 86_400
\* + seconds_from_midnight.  It fits an i64 for every date chrono holds.
timestamp(ts) ==
    [tag |-> "Int",
     val |-> BigAdd(BigMul(BigFromInt(num_days_from_ce(ts.ymd) - UNIX_EPOCH_DAY),
                           BigFromInt(86400)),
                    BigFromInt(ts.secs))]

timestamp_subsec_millis(ts) == ts.frac \div 1000000

timestamp_subsec_nanos(ts) == ts.frac

\* DateTime::timestamp_millis: let as_ms = self.timestamp() * 1000;
\* as_ms + i64::from(self.timestamp_subsec_millis())
timestamp_millis(ts, overflow_checks) ==
    LET as_ms == i64_mul(timestamp(ts), BigFromInt(1000), overflow_checks)
    IN i64_add(as_ms, BigFromInt(timestamp_subsec_millis(ts)), overflow_checks)

\* DateTime::timestamp_nanos: let as_ns = self.timestamp() * 1_000_000_000;
\* as_ns + i64::from(self.timestamp_subsec_nanos())
timestamp_nanos(ts, overflow_checks) ==
    LET as_ns == i64_mul(timestamp(ts), BigFromInt(1000000000), overflow_checks)
    IN i64_add(as_ns, BigFromInt(timestamp_subsec_nanos(ts)), overflow_checks)

(***************************************************************************)
(* Unit.                                                                   *)
(***************************************************************************)
Unit == {"Seconds", "Milliseconds", "Nanoseconds"}

None == [some |-> FALSE]

Some(x) == [some |-> TRUE, v |-> x]

Ok(x) == [tag |-> "Ok", v |-> x]

Err(e) == [tag |-> "Err", error |-> e]

Panic(m) == [tag |-> "Panic", message |-> m]

\* as_str with one identifier misspelt.
as_str_typo(u) ==
    CASE u = "Seconds" -> "seconds"
      [] u = "Milliseconds" -> "millisecond"
      [] u = "Nanoseconds" -> "nanoseconds"

as_str(u) ==
    CASE u = "Seconds" -> "seconds"
      [] u = "Milliseconds" -> "milliseconds"
      [] u = "Nanoseconds" -> "nanoseconds"

\* vec![Seconds, Milliseconds, Nanoseconds].into_iter().map(|u| u.as_str())
all_str == [i \in 1..3 |-> as_str(<<"Seconds", "Milliseconds", "Nanoseconds">>[i])]

Unit_default == "Seconds"

from_str(s) ==
    CASE s = "seconds" -> Ok("Seconds")
      [] s = "milliseconds" -> Ok("Milliseconds")
      [] s = "nanoseconds" -> Ok("Nanoseconds")
      [] OTHER -> Err("unit not recognized")

(***************************************************************************)
(* ToUnixTimestamp::compile.  An argument list binds each keyword to the   *)
(* call site's expression, or to nothing.                                  *)
(***************************************************************************)
\* arguments.required(keyword): the expression itself, not a Result.  The
\* call site binds it without `?` and stores it in the node, so a missing
\* argument has no error value to come back as: the lookup unwraps.
required(arguments, keyword) ==
    IF arguments[keyword].some THEN Ok(arguments[keyword].v)
    ELSE Panic("required argument is missing")

\* arguments.optional_enum(keyword, variants): Ok(None) without the argument,
\* Ok(Some(s)) for a string among the variants, otherwise an error naming
\* the keyword, the value and the variants.
optional_enum(arguments, keyword, variants) ==
    IF ~arguments[keyword].some THEN Ok(None)
    ELSE IF \E i \in DOMAIN variants : variants[i] = arguments[keyword].v
    THEN Ok(Some(arguments[keyword].v))
    ELSE Err([type |-> "InvalidEnumVariant", keyword |-> keyword,
              value |-> arguments[keyword].v, variants |-> variants])

expect(r, message) == IF r.tag = "Ok" THEN r ELSE Panic(message)

\* compile without the enum validation: the string goes straight to
\* from_str and an unknown one falls back to the default.
compile_unvalidated(arguments) ==
    LET value == required(arguments, "value")
    IN IF value.tag = "Panic" THEN value
       ELSE LET unit == IF arguments["unit"].some
                        THEN from_str(arguments["unit"].v)
                        ELSE Ok(Unit_default)
            IN Ok([value |-> value.v,
                   unit |-> IF unit.tag = "Ok" THEN unit.v ELSE Unit_default])

compile(arguments) ==
    LET value == required(arguments, "value")
    IN IF value.tag = "Panic" THEN value
       ELSE LET variant == optional_enum(arguments, "unit", all_str)
            IN IF variant.tag = "Err" THEN variant
               ELSE LET unit == IF variant.v.some
                                THEN expect(from_str(variant.v.v), "validated enum")
                                ELSE Ok(Unit_default)
                    IN IF unit.tag = "Panic" THEN unit
                       ELSE Ok([value |-> value.v, unit |-> unit.v])

(***************************************************************************)
(* Values, kinds and the operand expressions a call site can pass.         *)
(***************************************************************************)
Kind == {"Timestamp", "Integer", "Bytes", "Null"}

Timestamp(t) == [kind |-> "Timestamp", ts |-> t]

Integer(i) == [kind |-> "Integer", int |-> i]

Bytes(b) == [kind |-> "Bytes", bytes |-> b]

Null == [kind |-> "Null"]

\* Operand expressions, each with its static type and the outcomes it can
\* resolve to:
\*   timestamp_expr      a timestamp, infallibly (a literal, a variable
\*                       known to hold one)
\*   string_literal      lit!("late December back in '63")
\*   fallible_timestamp  a timestamp or a failure
\*   path                any value, infallibly
Operand == {"timestamp_expr", "string_literal", "fallible_timestamp", "path"}

operand_type_def(expr) ==
    CASE expr = "timestamp_expr" -> [fallible |-> FALSE, kind |-> {"Timestamp"}]
      [] expr = "string_literal" -> [fallible |-> FALSE, kind |-> {"Bytes"}]
      [] expr = "fallible_timestamp" -> [fallible |-> TRUE, kind |-> {"Timestamp"}]
      [] expr = "path" -> [fallible |-> FALSE, kind |-> Kind]

\* The operand's failures are opaque to the node: NumErrors of them.
NumErrors == 2

OperandError == {[type |-> "OperandError", id |-> i] : i \in 1..NumErrors}

Timestamps ==
    { Ts(2000, 1, 1, 0, 0), Ts(2021, 1, 1, 0, 0),
      Ts(1970, 1, 1, 0, 0), Ts(1970, 1, 1, 0, 500000000),
      Ts(1969, 12, 31, 86399, 0), Ts(1969, 12, 31, 86399, 500000000),
      Ts(1969, 12, 31, 86398, 500000000),
      \* 2262-04-11T23:47:16.854775807Z is the last instant whose nanosecond
      \* count fits an i64, 1677-09-21T00:12:43.145224192Z the first.
      Ts(2262, 4, 11, 85636, 854775807), Ts(2262, 4, 11, 85636, 854775808),
      Ts(2262, 4, 11, 85637, 0),
      Ts(1677, 9, 21, 764, 0), Ts(1677, 9, 21, 763, 146000000),
      Ts(1677, 9, 21, 763, 145224192), Ts(1677, 9, 21, 763, 145224191) }

OtherValues == {Bytes("late December back in '63"), Integer(BigFromInt(1609459200)), Null}

\* The timestamps the operands that need not yield one are sampled at.
FewTimestamps == {Ts(2021, 1, 1, 0, 0), Ts(1969, 12, 31, 86399, 500000000)}

operand_outcomes(expr) ==
    CASE expr = "timestamp_expr" -> {Ok(Timestamp(t)) : t \in Timestamps}
      [] expr = "string_literal" -> {Ok(Bytes("late December back in '63"))}
      [] expr = "fallible_timestamp" ->
            {Ok(Timestamp(t)) : t \in FewTimestamps} \cup {Err(e) : e \in OperandError}
      [] expr = "path" ->
            {Ok(Timestamp(t)) : t \in FewTimestamps} \cup {Ok(v) : v \in OtherValues}

(***************************************************************************)
(* ToUnixTimestampFn::type_def.                                            *)
(***************************************************************************)
fallible_unless(td, kind) ==
    IF td.kind \subseteq kind THEN td ELSE [td EXCEPT !.fallible = TRUE]

with_constraint(td, kind) == [td EXCEPT !.kind = kind]

\* type_def without fallible_unless: the operand's fallibility as it is.
type_def_unchecked(node) ==
    with_constraint(operand_type_def(node.value), {"Integer"})

type_def(node) ==
    with_constraint(fallible_unless(operand_type_def(node.value), {"Timestamp"}),
                    {"Integer"})

(***************************************************************************)
(* ToUnixTimestampFn::resolve.                                             *)
(***************************************************************************)
try_timestamp(value) ==
    IF value.kind = "Timestamp" THEN Ok(value.ts)
    ELSE Err([type |-> "Expected", expected |-> "Timestamp", got |-> value.kind])

\* resolve with the operand's failure wrapped instead of passed on.
resolve_wrapping(node, operand, overflow_checks) ==
    IF operand.tag = "Err"
    THEN Err([type |-> "Expected", expected |-> "Timestamp", got |-> "Error"])
    ELSE LET ts == try_timestamp(operand.v)
         IN IF ts.tag = "Err" THEN ts
            ELSE LET time == CASE node.unit = "Seconds" -> timestamp(ts.v)
                               [] node.unit = "Milliseconds" ->
                                     timestamp_millis(ts.v, overflow_checks)
                               [] node.unit = "Nanoseconds" ->
                                     timestamp_nanos(ts.v, overflow_checks)
                 IN IF time.tag = "Panic" THEN Panic(time.message)
                    ELSE Ok(Integer(time.val))

resolve(node, operand, overflow_checks) ==
    IF operand.tag = "Err" THEN operand
    ELSE LET ts == try_timestamp(operand.v)
         IN IF ts.tag = "Err" THEN ts
            ELSE LET time == CASE node.unit = "Seconds" -> timestamp(ts.v)
                               [] node.unit = "Milliseconds" ->
                                     timestamp_millis(ts.v, overflow_checks)
                               [] node.unit = "Nanoseconds" ->
                                     timestamp_nanos(ts.v, overflow_checks)
                 IN IF time.tag = "Panic" THEN Panic(time.message)
                    ELSE Ok(Integer(time.val))

(***************************************************************************)
(* The state machine: one call site of the builtin, from compilation to    *)
(* the evaluation of records.                                              *)
(***************************************************************************)
VARIABLES
    overflow_checks,  \* whether the build checks integer overflow
    compiled,         \* the call site's arguments and what compile returned
    typed,            \* what type_def returned for the compiled node
    resolved,         \* the node's latest resolve: operand outcome and result
    previous          \* the resolve before it

vars == <<overflow_checks, compiled, typed, resolved, previous>>

MaxTypeDefCalls == 2

UnitArgument == {"seconds", "milliseconds", "nanoseconds", "hours", "Seconds", ""}

Arguments ==
    [value : {None} \cup {Some(e) : e \in Operand},
     unit : {None} \cup {Some(s) : s \in UnitArgument}]

Nothing == [tag |-> "None"]

Init ==
    /\ overflow_checks \in BOOLEAN
    /\ compiled = Nothing
    /\ typed = Nothing
    /\ resolved = Nothing
    /\ previous = Nothing

Compile ==
    /\ compiled.tag = "None"
    /\ \E arguments \in Arguments :
        /\ compiled' = [tag |-> "Compiled", arguments |-> arguments,
                        result |-> compile(arguments)]
        /\ typed' = Nothing
        /\ resolved' = Nothing
        /\ previous' = Nothing
        /\ UNCHANGED overflow_checks

HasNode == compiled.tag = "Compiled" /\ compiled.result.tag = "Ok"

TypeDef ==
    /\ HasNode
    /\ LET td == type_def(compiled.result.v)
       IN IF typed.tag = "None"
          THEN typed' = [tag |-> "TypeDef", calls |-> 1, first |-> td, latest |-> td]
          ELSE /\ typed.calls < MaxTypeDefCalls
               /\ typed' = [typed EXCEPT !.calls = @ + 1, !.latest = td]
    /\ UNCHANGED <<overflow_checks, compiled, resolved, previous>>

Resolve ==
    /\ HasNode
    /\ \E operand \in operand_outcomes(compiled.result.v.value) :
          resolved' = [tag |-> "Resolved", unit |-> compiled.result.v.unit,
                       operand |-> operand,
                       result |-> resolve(compiled.result.v, operand, overflow_checks)]
    /\ previous' = resolved
    /\ UNCHANGED <<overflow_checks, compiled, typed>>

Next == Compile \/ TypeDef \/ Resolve

Spec == Init /\ [][Next]_vars

(***************************************************************************)
(* Vocabulary of the properties.                                           *)
(***************************************************************************)
One == BigFromInt(1)

E3 == BigFromInt(1000)

E6 == BigFromInt(1000000)

E9 == BigFromInt(1000000000)

\* The exact number of nanoseconds from 1970-01-01T00:00:00Z to ts, taken
\* from the calendar fields and not from the conversions under test.
ExactNanos(ts) ==
    LET days == num_days_from_ce(ts.ymd) - num_days_from_ce(<<1970, 1, 1>>)
        secs == BigAdd(BigMul(BigFromInt(days), BigFromInt(86400)), BigFromInt(ts.secs))
    IN BigAdd(BigMul(secs, E9), BigFromInt(ts.frac))

\* Nanoseconds per unit.
UnitNanos(u) ==
    CASE u = "Seconds" -> E9
      [] u = "Milliseconds" -> E6
      [] u = "Nanoseconds" -> One

\* n is the count of whole units up to the instant x (in nanoseconds),
\* rounded toward negative infinity.
IsFloorCount(n, x, u) ==
    /\ BigLe(BigMul(n, UnitNanos(u)), x)
    /\ BigLt(x, BigMul(BigAdd(n, One), UnitNanos(u)))

\* n is the count of whole units between the epoch and x, rounded toward
\* zero.
IsTruncCount(n, x, u) ==
    /\ BigLe(BigMul(BigAbs(n), UnitNanos(u)), BigAbs(x))
    /\ BigLt(BigAbs(x), BigMul(BigAdd(BigAbs(n), One), UnitNanos(u)))
    /\ (n = Zero \/ n.neg = x.neg)

\* n is within one unit of x, whichever way it is rounded.
IsWholeCount(n, x, u) ==
    BigLt(BigAbs(BigSub(BigMul(n, UnitNanos(u)), x)), UnitNanos(u))

\* A resolve whose operand yielded a timestamp.
OnTimestamp(r) ==
    /\ r.tag = "Resolved"
    /\ r.operand.tag = "Ok"
    /\ r.operand.v.kind = "Timestamp"

TsOf(r) == r.operand.v.ts

ReturnedInteger(r) == r.result.tag = "Ok" /\ r.result.v.kind = "Integer"

IntOf(r) == r.result.v.int

HalfBeforeEpoch == Ts(1969, 12, 31, 86399, 500000000)

OneAndHalfBeforeEpoch == Ts(1969, 12, 31, 86398, 500000000)

ValidUnitStrings == {"seconds", "milliseconds", "nanoseconds"}

(***************************************************************************)
(* C1.  For a timestamp whose nanosecond count fits an i64 and any unit,   *)
(* resolve succeeds with an integer, the whole number of units between the *)
(* epoch and the timestamp (2021-01-01T00:00:00Z gives 1609459200,         *)
(* 1609459200000 and 1609459200000000000); a successful resolve returns    *)
(* nothing but an integer.  The count is taken as within one unit of the   *)
(* exact instant, so the statement does not depend on the direction of     *)
(* rounding.                                                               *)
(***************************************************************************)
C1_InRangeWholeCount ==
    /\ (resolved.tag = "Resolved" /\ resolved.result.tag = "Ok")
          => resolved.result.v.kind = "Integer"
    /\ (OnTimestamp(resolved) /\ InI64(ExactNanos(TsOf(resolved))))
          => /\ ReturnedInteger(resolved)
             /\ IsWholeCount(IntOf(resolved), ExactNanos(TsOf(resolved)), resolved.unit)
             /\ TsOf(resolved) = Ts(2021, 1, 1, 0, 0)
                   => IntOf(resolved) =
                         CASE resolved.unit = "Seconds" -> Big(FALSE, <<200, 459, 609, 1>>)
                           [] resolved.unit = "Milliseconds" ->
                                 Big(FALSE, <<0, 200, 459, 609, 1>>)
                           [] resolved.unit = "Nanoseconds" ->
                                 Big(FALSE, <<0, 0, 0, 200, 459, 609, 1>>)

(***************************************************************************)
(* C2.  For a call site that passes `value`: compile succeeds exactly when *)
(* `unit` is absent or one of "seconds", "milliseconds", "nanoseconds";    *)
(* any other string gives the invalid-enum error naming the allowed set    *)
(* and no node (nothing is typed or resolved); without `unit` the node has *)
(* unit Seconds, is the node "seconds" compiles to and resolves as it;     *)
(* with a valid string the node's unit is the variant of that name.        *)
(***************************************************************************)
C2_CompileUnit ==
    (compiled.tag = "Compiled" /\ compiled.arguments.value.some) =>
        LET unit == compiled.arguments.unit
            result == compiled.result
            valid == unit.some /\ unit.v \in ValidUnitStrings
        IN /\ result.tag = "Ok" <=> (~unit.some \/ valid)
           /\ (unit.some /\ ~valid) =>
                 /\ result.tag = "Err"
                 /\ result.error.type = "InvalidEnumVariant"
                 /\ result.error.keyword = "unit"
                 /\ result.error.variants = <<"seconds", "milliseconds", "nanoseconds">>
                 /\ typed.tag = "None"
                 /\ resolved.tag = "None"
           /\ ~unit.some =>
                 /\ result.tag = "Ok"
                 /\ result.v.unit = "Seconds"
                 /\ result = compile([compiled.arguments EXCEPT !.unit = Some("seconds")])
                 /\ resolved.tag = "Resolved" =>
                       resolved.result =
                          resolve([value |-> compiled.arguments.value.v, unit |-> "Seconds"],
                                  resolved.operand, overflow_checks)
           /\ valid =>
                 /\ result.tag = "Ok"
                 /\ result.v.value = compiled.arguments.value.v
                 /\ unit.v = "seconds" => result.v.unit = "Seconds"
                 /\ unit.v = "milliseconds" => result.v.unit = "Milliseconds"
                 /\ unit.v = "nanoseconds" => result.v.unit = "Nanoseconds"

\* `unit: "hours"` was rejected.
C2_Witness ==
    /\ compiled.tag = "Compiled"
    /\ compiled.arguments.value.some
    /\ compiled.arguments.unit.some
    /\ compiled.arguments.unit.v = "hours"
    /\ compiled.result.tag = "Err"

(***************************************************************************)
(* C3.  Compiling an argument list without `value` returns a compile       *)
(* error: no panic and no node.                                            *)
(***************************************************************************)
C3_MissingValueIsError ==
    (compiled.tag = "Compiled" /\ ~compiled.arguments.value.some) =>
        compiled.result.tag = "Err"

(***************************************************************************)
(* C4.  type_def constrains the kind to Integer; it is infallible for an   *)
(* operand that is a pure timestamp and fallible for one that allows a     *)
(* non-timestamp value; the unit plays no part, and a further call gives   *)
(* the same descriptor.                                                    *)
(***************************************************************************)
C4_TypeDef ==
    typed.tag = "TypeDef" =>
        LET node == compiled.result.v
            operand == operand_type_def(node.value)
        IN /\ typed.latest.kind = {"Integer"}
           /\ (operand.kind = {"Timestamp"} /\ ~operand.fallible) => ~typed.latest.fallible
           /\ (operand.kind \ {"Timestamp"} # {}) => typed.latest.fallible
           /\ \A u \in Unit : type_def([node EXCEPT !.unit = u]) = typed.latest
           /\ typed.first = typed.latest

\* type_def was called twice on a node whose operand is the string literal.
C4_Witness ==
    /\ typed.tag = "TypeDef"
    /\ typed.calls = 2
    /\ compiled.result.v.value = "string_literal"
    /\ typed.latest = [fallible |-> TRUE, kind |-> {"Integer"}]

(***************************************************************************)
(* C5.  resolve fails in exactly two cases, in this order: the operand's   *)
(* evaluation failed, and that failure is returned unchanged; or the       *)
(* operand's value is not a timestamp, and the failure is the coercion     *)
(* error naming the value's kind.  Neither case returns an integer or      *)
(* panics.                                                                 *)
(***************************************************************************)
C5_ResolveFailures ==
    resolved.tag = "Resolved" =>
        /\ resolved.operand.tag = "Err" => resolved.result = resolved.operand
        /\ (resolved.operand.tag = "Ok" /\ resolved.operand.v.kind # "Timestamp") =>
              /\ resolved.result.tag = "Err"
              /\ resolved.result.error.type = "Expected"
              /\ resolved.result.error.expected = "Timestamp"
              /\ resolved.result.error.got = resolved.operand.v.kind
        /\ resolved.result.tag = "Err" =>
              \/ resolved.operand.tag = "Err"
              \/ resolved.operand.v.kind # "Timestamp"

\* The operand failed, and before that it had yielded a timestamp.
C5_Witness ==
    /\ resolved.tag = "Resolved"
    /\ resolved.operand.tag = "Err"
    /\ resolved.result.tag = "Err"
    /\ OnTimestamp(previous)

(***************************************************************************)
(* C6.  With unit Nanoseconds and a timestamp whose nanosecond count does  *)
(* not fit an i64, resolve does not wrap: it returns i64::MIN or i64::MAX  *)
(* or a failure, never the count reduced modulo 2^64, and never panics.    *)
(***************************************************************************)
C6_NanosecondsNoWrap ==
    (/\ OnTimestamp(resolved)
     /\ resolved.unit = "Nanoseconds"
     /\ ~InI64(ExactNanos(TsOf(resolved)))) =>
        /\ resolved.result.tag # "Panic"
        /\ \/ resolved.result.tag = "Err"
           \/ ReturnedInteger(resolved) /\ IntOf(resolved) \in {I64Min, I64Max}
        /\ ~(ReturnedInteger(resolved)
             /\ IntOf(resolved) = WrapI64(ExactNanos(TsOf(resolved))))

(***************************************************************************)
(* C7, as claimed.  With unit Seconds the count is rounded toward zero:    *)
(* 0.5 s before the epoch gives 0, 1.5 s before the epoch gives -1.        *)
(***************************************************************************)
C7_SecondsTruncated ==
    (OnTimestamp(resolved) /\ resolved.unit = "Seconds") =>
        /\ ReturnedInteger(resolved)
        /\ IsTruncCount(IntOf(resolved), ExactNanos(TsOf(resolved)), "Seconds")
        /\ TsOf(resolved) = HalfBeforeEpoch => IntOf(resolved) = Zero
        /\ TsOf(resolved) = OneAndHalfBeforeEpoch => IntOf(resolved) = BigFromInt(-1)

(***************************************************************************)
(* C7, amended.  With unit Seconds the count is rounded toward negative    *)
(* infinity: the sub-second part never rounds it upward, 0.5 s before the  *)
(* epoch gives -1 and 1.5 s before the epoch gives -2; from the epoch on   *)
(* this is truncation.                                                     *)
(***************************************************************************)
C7_SecondsFloored ==
    (OnTimestamp(resolved) /\ resolved.unit = "Seconds") =>
        /\ ReturnedInteger(resolved)
        /\ IsFloorCount(IntOf(resolved), ExactNanos(TsOf(resolved)), "Seconds")
        /\ ~ExactNanos(TsOf(resolved)).neg =>
              IsTruncCount(IntOf(resolved), ExactNanos(TsOf(resolved)), "Seconds")
        /\ TsOf(resolved) = HalfBeforeEpoch => IntOf(resolved) = BigFromInt(-1)
        /\ TsOf(resolved) = OneAndHalfBeforeEpoch => IntOf(resolved) = BigFromInt(-2)

\* Seconds were resolved for the instant 0.5 s before the epoch.
C7_Witness ==
    /\ OnTimestamp(resolved)
    /\ resolved.unit = "Seconds"
    /\ TsOf(resolved) = HalfBeforeEpoch
    /\ ReturnedInteger(resolved)

(***************************************************************************)
(* C8.  Monotonicity: of two resolves of the node, on timestamps t1 < t2,  *)
(* the integer returned for t1 is at most the one returned for t2.         *)
(***************************************************************************)
C8_Monotonic ==
    \A a, b \in {previous, resolved} :
        (/\ OnTimestamp(a) /\ OnTimestamp(b)
         /\ ReturnedInteger(a) /\ ReturnedInteger(b)
         /\ BigLt(ExactNanos(TsOf(a)), ExactNanos(TsOf(b)))) =>
            BigLe(IntOf(a), IntOf(b))

(***************************************************************************)
(* C9.  Unit scaling: for a timestamp without sub-second part the          *)
(* Milliseconds result is the Seconds result times 1000; for one without   *)
(* sub-millisecond part the Nanoseconds result is the Milliseconds result  *)
(* times 10^6.                                                             *)
(***************************************************************************)
C9_UnitScaling ==
    (OnTimestamp(resolved) /\ ReturnedInteger(resolved)) =>
        LET with(u) == resolve([value |-> compiled.result.v.value, unit |-> u],
                               resolved.operand, overflow_checks)
        IN /\ (resolved.unit = "Milliseconds" /\ TsOf(resolved).frac = 0) =>
                 /\ with("Seconds").tag = "Ok"
                 /\ IntOf(resolved) = BigMul(with("Seconds").v.int, E3)
           /\ (resolved.unit = "Nanoseconds" /\ TsOf(resolved).frac % 1000000 = 0) =>
                 /\ with("Milliseconds").tag = "Ok"
                 /\ IntOf(resolved) = BigMul(with("Milliseconds").v.int, E6)

(***************************************************************************)
(* C10.  The strings compile hands to the enum validation are the strings  *)
(* from_str accepts; from_str(as_str(u)) = u for every variant, and every  *)
(* other string fails with "unit not recognized"; so a validated string    *)
(* always parses and the expect in compile never panics.                   *)
(***************************************************************************)
C10_UnitStrings ==
    LET handed == {all_str[i] : i \in DOMAIN all_str}
        strings == UnitArgument \cup handed \cup ValidUnitStrings
    IN /\ handed = {s \in strings : from_str(s).tag = "Ok"}
       /\ \A u \in Unit : from_str(as_str(u)) = Ok(u)
       /\ \A s \in strings \ {as_str(u) : u \in Unit} :
             from_str(s) = Err("unit not recognized")
       /\ compiled.tag = "Compiled" =>
             /\ ~(compiled.result.tag = "Panic" /\ compiled.result.message = "validated enum")
             /\ (compiled.arguments.value.some /\ compiled.arguments.unit.some
                 /\ compiled.arguments.unit.v \in handed) =>
                   /\ compiled.result.tag = "Ok"
                   /\ from_str(compiled.arguments.unit.v) = Ok(compiled.result.v.unit)

\* A call site with `unit: "nanoseconds"` compiled to a Nanoseconds node.
C10_Witness ==
    /\ compiled.tag = "Compiled"
    /\ compiled.arguments.unit.some
    /\ compiled.arguments.unit.v = "nanoseconds"
    /\ compiled.result.tag = "Ok"
    /\ compiled.result.v.unit = "Nanoseconds"

====
